---- MODULE Spec2Model ----
(***************************************************************************)
(* Model of the VSB shape layer (src/src/lib.rs): Circle, Rectangle and    *)
(* RadialGradient shape resources over a glow graphics context, the        *)
(* uniform bindings, render dispatch and compile_shader.                   *)
(*                                                                         *)
(* The library is single-threaded and synchronous, so every public         *)
(* operation is one atomic action.  `calls` is the list of context calls   *)
(* the last operation made, `op` describes that operation (receiver as it  *)
(* was before the call, arguments, outcome).  The graphics context is the  *)
(* external collaborator: it is modelled by the object tables the calls    *)
(* act on (live names, binding points, buffer data stores, programs and    *)
(* shaders).  Object names are GL names, vertex arrays and buffers in      *)
(* separate name spaces; create_* returns a name never returned before.    *)
(*                                                                         *)
(* Spec is the shape layer: constructors, clone, update, draw_with,       *)
(* render, drop.  A program handle is a plain u32 argument there, so the   *)
(* programs a caller passes are inputs.  SpecNoClone is Spec without       *)
(* Rectangle's clone.  SpecShader is compile_shader.                       *)
(***************************************************************************)
EXTENDS Integers, Sequences, FiniteSets, Bags, TLC

\* ------------------------------------------------------------------ bounds
MaxShapes   == 2    \* shape resources the caller holds at once
MaxVA       == 2    \* vertex-array names the context hands out in a run
MaxPrograms == 2    \* compile_shader calls in a run

VANames     == 1..MaxVA
BufNames    == 1..(2 * MaxVA)
ProgNames   == 1..MaxPrograms
ShaderNames == 1..(2 * MaxPrograms)

\* ------------------------------------------------------ inputs (small sets)
Radii       == {5}
NewSizes    == {<<10, 8>>}       \* <<width, height>> given to Rectangle::new
UpdateSizes == {<<20, 16>>}      \* <<width, height>> given to Rectangle::update
Programs    == {1, 2}            \* program handles the caller draws with
CornerTypes == {"Round", "Hard"}
Positions   == {<<3, 4>>}
Colors      == {<<255, 0, 0>>}
Resolutions == {<<640, 480>>}

\* Shader sources given to compile_shader: whether the driver compiles the
\* text is the driver's to say.
VertexSources   == {[id |-> 1, compiles |-> TRUE], [id |-> 2, compiles |-> FALSE]}
FragmentSources == {[id |-> 3, compiles |-> TRUE], [id |-> 4, compiles |-> FALSE]}

\* Points of the flattened outline lyon produces for a path (external
\* library, tolerance 0.1): a rectangle has its 4 corners, a rounded
\* rectangle and a circle some larger number that the library decides.
RoundOutlines  == {12}
CircleOutlines == {16}

OutlinePoints(path) ==
    IF path = "rectangle" THEN {4}
    ELSE IF path = "rounded_rectangle" THEN RoundOutlines
    ELSE CircleOutlines

\* builder.build(): an error, or the fill mesh of an n-point outline
\* (n vertices, n - 2 triangles, three u16 indices each).
TessFailed == [ok |-> FALSE, vertices |-> 0, indices |-> 0]

Tessellate(path) ==
    {TessFailed} \cup
    {[ok |-> TRUE, vertices |-> n, indices |-> 3 * (n - 2)] : n \in OutlinePoints(path)}

\* match kind { Hard => add_rectangle, Round => add_rounded_rectangle }
RectanglePath(kind) ==
    IF kind = "Hard" THEN "rectangle" ELSE "rounded_rectangle"

\* vertex_buffer_data: x and y of every vertex, 4 bytes (f32 LE) each.
VertexBufferData(geometry) == (geometry.vertices * 2) * 4

\* index_buffer_data: 2 bytes (u16 LE) per index.
IndexBufferData(geometry) == geometry.indices * 2

\* ------------------------------------------------------------------- state
VARIABLES
    shapes,       \* bag of the shape resources the caller holds
    liveVA,       \* vertex-array names alive in the context
    liveBuf,      \* buffer names alive in the context
    nextVA,       \* next vertex-array name create_vertex_array returns
    nextBuf,      \* next buffer name create_buffer returns
    boundProg,    \* current program (use_program)
    boundVA,      \* bound vertex array
    boundArr,     \* ARRAY_BUFFER binding
    boundElem,    \* ELEMENT_ARRAY_BUFFER binding
    bufBytes,     \* buffer name -> size of its data store
    built,        \* names created together by one constructor call, <<va, vb, ib>>
                  \* (0 = not created), while any of them is alive
    programs,     \* program name -> state, attached shaders
    liveShaders,  \* shader names alive in the context
    nextProg,     \* next program name create_program returns
    nextShader,   \* next shader name create_shader returns
    calls,        \* context calls of the last operation, in order
    op            \* the last operation

glVars   == <<liveVA, liveBuf, nextVA, nextBuf>>
bindVars == <<boundProg, boundVA, boundArr, boundElem>>
progVars == <<programs, liveShaders, nextProg, nextShader>>
shapeVars == <<shapes, glVars, bindVars, bufBytes, built>>
vars == <<shapes, liveVA, liveBuf, nextVA, nextBuf, boundProg, boundVA, boundArr, boundElem,
          bufBytes, built, programs, liveShaders, nextProg, nextShader, calls, op>>

NoShape ==
    [type |-> "none", vertex_array |-> 0, vertex_buffer |-> 0, index_buffer |-> 0,
     indices |-> 0, width |-> 0, height |-> 0, radius |-> 0]

NoProgram == [state |-> "none", attached |-> {}]

\* One context call: function name, target, object name, string argument,
\* numeric arguments, and whether the object named was alive at the call.
Call(f, tgt, n, u, v, alive) ==
    [f |-> f, tgt |-> tgt, n |-> n, u |-> u, v |-> v, alive |-> alive]

\* The operation record: name, outcome ("ok", "err" for a returned Err,
\* "panic"), receiver before the call, numeric arguments, whether
\* builder.build() succeeded, program and uniform bindings handed to render.
\* Operations set the fields they have.
NoOp ==
    [name |-> "init", outcome |-> "ok", pre |-> NoShape, args |-> <<>>,
     tessellated |-> TRUE, program |-> 0, uniforms |-> <<>>]

Init ==
    /\ shapes = EmptyBag
    /\ liveVA = {} /\ liveBuf = {}
    /\ nextVA = 1 /\ nextBuf = 1
    /\ boundProg = 0 /\ boundVA = 0 /\ boundArr = 0 /\ boundElem = 0
    /\ bufBytes = [n \in BufNames |-> 0]
    /\ built = {}
    /\ programs = [p \in ProgNames |-> NoProgram]
    /\ liveShaders = {}
    /\ nextProg = 1 /\ nextShader = 1
    /\ calls = <<>>
    /\ op = NoOp

\* The shape resources the caller holds (a clone is a second copy).
Held == BagToSet(shapes)
Take(s) == shapes (-) SetToBag({s})
Put(bag, s) == bag (+) SetToBag({s})

\* ------------------------------------------------- context object tables
\* Bind with the binding cached: the bind call is left out when the binding
\* point already holds an object.
BindIfUnbound(cur, name, live, takes) ==
    IF cur = 0 THEN name ELSE cur

\* bind_vertex_array / bind_buffer of `name` at a binding point holding
\* `cur`.  A live name is bound.  A name that was deleted is no object of
\* the context any more: whether the bind takes or is rejected (leaving the
\* binding as it was) depends on the context, so both are possible.
Bind(cur, name, live, takes) ==
    IF name \in live \/ takes THEN name ELSE cur

\* buffer_data_u8_slice(target, data, usage): fills the data store of the
\* buffer bound to the target, if one is.
BufferData(store, bound, live, bytes) ==
    IF bound \in live THEN [store EXCEPT ![bound] = bytes] ELSE store

\* delete_* of a name: the binding point reverts to 0 if it held the object.
Unbind(cur, names, live) ==
    IF cur \in names /\ cur \in live THEN 0 ELSE cur

\* delete_buffer frees the data stores of the named buffers.
FreeData(store, names) ==
    [n \in BufNames |-> IF n \in names THEN 0 ELSE store[n]]

\* The constructions that still have an object alive.
StillAlive(groups, va, buf) ==
    {g \in groups : g[1] \in va \/ g[2] \in buf \/ g[3] \in buf}

\* ------------------------------------------------------------ constructors
\* The part the three constructors share (lines 131-179, 267-317, 467-515):
\* create and bind the vertex array and the two buffers (each create is
\* unwrapped: an Err panics on the spot), set up attribute 0, upload the
\* vertex and index data, return the shape.  failAt: which create returns
\* Err (1 vertex array, 2 vertex buffer, 3 index buffer), 0 for none.
CreateAndUpload(name, type, geometry, radius, width, height, usage, failAt) ==
    LET va == nextVA
        vb == nextBuf
        ib == nextBuf + 1
        o  == [NoOp EXCEPT !.name = name]
        cVA  == <<Call("create_vertex_array", "", va, "Ok", <<>>, TRUE),
                  Call("bind_vertex_array", "", va, "", <<>>, TRUE)>>
        cVB  == <<Call("create_buffer", "", vb, "Ok", <<>>, TRUE),
                  Call("bind_buffer", "ARRAY_BUFFER", vb, "", <<>>, TRUE)>>
        cIB  == <<Call("create_buffer", "", ib, "Ok", <<>>, TRUE),
                  Call("bind_buffer", "ELEMENT_ARRAY_BUFFER", ib, "", <<>>, TRUE)>>
        cUp  == <<Call("enable_vertex_attrib_array", "", 0, "", <<>>, TRUE),
                  Call("vertex_attrib_pointer_f32", "", 0, "FLOAT", <<2, 0, 0>>, TRUE),
                  Call("buffer_data_u8_slice", "ARRAY_BUFFER", vb, usage,
                       <<VertexBufferData(geometry)>>, TRUE),
                  Call("buffer_data_u8_slice", "ELEMENT_ARRAY_BUFFER", ib, usage,
                       <<IndexBufferData(geometry)>>, TRUE)>>
    IN
    /\ UNCHANGED <<boundProg, progVars>>
    /\ \/ /\ failAt = 1
          /\ calls' = <<Call("create_vertex_array", "", 0, "Err", <<>>, TRUE)>>
          /\ op' = [o EXCEPT !.outcome = "panic"]
          /\ UNCHANGED <<shapes, glVars, boundVA, boundArr, boundElem,
                         bufBytes, built>>
       \/ /\ failAt = 2
          /\ va <= MaxVA
          /\ nextVA' = va + 1
          /\ calls' = cVA \o <<Call("create_buffer", "", 0, "Err", <<>>, TRUE)>>
          /\ op' = [o EXCEPT !.outcome = "panic"]
          /\ built' = built \cup {<<va, 0, 0>>}
          /\ liveVA' = liveVA \cup {va}
          /\ boundVA' = va
          /\ UNCHANGED <<shapes, liveBuf, nextBuf, boundArr, boundElem, bufBytes>>
       \/ /\ failAt = 3
          /\ va <= MaxVA
          /\ nextVA' = va + 1
          /\ nextBuf' = vb + 1
          /\ calls' = cVA \o cVB \o <<Call("create_buffer", "", 0, "Err", <<>>, TRUE)>>
          /\ op' = [o EXCEPT !.outcome = "panic"]
          /\ built' = built \cup {<<va, vb, 0>>}
          /\ liveVA' = liveVA \cup {va}
          /\ boundVA' = va
          /\ liveBuf' = liveBuf \cup {vb}
          /\ boundArr' = vb
          /\ UNCHANGED <<shapes, boundElem, bufBytes>>
       \/ /\ failAt = 0
          /\ va <= MaxVA
          /\ nextVA' = va + 1
          /\ nextBuf' = ib + 1
          /\ BagCardinality(shapes) < MaxShapes
          /\ calls' = cVA \o cVB \o cIB \o cUp
          /\ op' = [o EXCEPT !.outcome = "ok"]
          /\ built' = built \cup {<<va, vb, ib>>}
          /\ liveVA' = liveVA \cup {va}
          /\ boundVA' = va
          /\ liveBuf' = liveBuf \cup {vb, ib}
          /\ boundArr' = vb
          /\ boundElem' = ib
          /\ bufBytes' = [bufBytes EXCEPT ![vb] = VertexBufferData(geometry),
                                          ![ib] = IndexBufferData(geometry)]
          /\ shapes' = Put(shapes,
                 [type |-> type, vertex_array |-> va, vertex_buffer |-> vb,
                  index_buffer |-> ib, indices |-> geometry.indices,
                  width |-> width, height |-> height, radius |-> radius])

\* builder.build() returned Err: `?` hands it to the caller ("err"),
\* unwrap() panics ("panic").  Nothing was created or called yet.
TessellationFails(name, outcome) ==
    /\ calls' = <<>>
    /\ op' = [NoOp EXCEPT !.name = name, !.outcome = outcome, !.tessellated = FALSE]
    /\ UNCHANGED <<shapeVars, progVars>>

\* Circle::new with builder.build().unwrap() in place of `?`.
CircleNewUnwrap(radius) ==
    \E geometry \in Tessellate("circle"), failAt \in 0..3 :
        IF geometry.ok
        THEN CreateAndUpload("Circle::new", "Circle", geometry, radius, 0, 0,
                             "DYNAMIC_DRAW", failAt)
        ELSE failAt = 0 /\ TessellationFails("Circle::new", "panic")

\* Circle::new(gl, radius)
CircleNew(radius) ==
    \E geometry \in Tessellate("circle"), failAt \in 0..3 :
        IF geometry.ok
        THEN CreateAndUpload("Circle::new", "Circle", geometry, radius, 0, 0,
                             "DYNAMIC_DRAW", failAt)
        ELSE failAt = 0 /\ TessellationFails("Circle::new", "err")

\* Rectangle::new(gl, width, height, kind)
RectangleNew(width, height, kind) ==
    \E geometry \in Tessellate(RectanglePath(kind)), failAt \in 0..3 :
        IF geometry.ok
        THEN CreateAndUpload("Rectangle::new", "Rectangle", geometry, 0, width,
                             height, "STATIC_DRAW", failAt)
        ELSE failAt = 0 /\ TessellationFails("Rectangle::new", "panic")

\* RadialGradient::new(gl, radius)
RadialGradientNew(radius) ==
    \E geometry \in Tessellate("circle"), failAt \in 0..3 :
        IF geometry.ok
        THEN CreateAndUpload("RadialGradient::new", "RadialGradient", geometry,
                             radius, 0, 0, "DYNAMIC_DRAW", failAt)
        ELSE failAt = 0 /\ TessellationFails("RadialGradient::new", "err")

\* ------------------------------------------------------------------- drop
\* impl Drop: delete_vertex_array(vertex_array), delete_buffer(vertex_buffer),
\* delete_buffer(index_buffer), whatever the context holds under the names.
DropShape(name, s) ==
    LET va  == liveVA \ {s.vertex_array}
        buf == liveBuf \ {s.vertex_buffer, s.index_buffer}
    IN
    /\ calls' = <<Call("delete_vertex_array", "", s.vertex_array, "", <<>>,
                       s.vertex_array \in liveVA),
                  Call("delete_buffer", "", s.vertex_buffer, "", <<>>,
                       s.vertex_buffer \in liveBuf),
                  Call("delete_buffer", "", s.index_buffer, "", <<>>,
                       s.index_buffer \in liveBuf)>>
    /\ op' = [NoOp EXCEPT !.name = name, !.pre = s]
    /\ shapes' = Take(s)
    /\ liveVA' = va
    /\ liveBuf' = buf
    /\ built' = StillAlive(built, va, buf)
    /\ boundVA' = Unbind(boundVA, {s.vertex_array}, liveVA)
    /\ boundArr' = Unbind(boundArr, {s.vertex_buffer, s.index_buffer}, liveBuf)
    /\ boundElem' = Unbind(boundElem, {s.vertex_buffer, s.index_buffer}, liveBuf)
    /\ bufBytes' = FreeData(bufBytes, {s.vertex_buffer, s.index_buffer})
    /\ UNCHANGED <<nextVA, nextBuf, boundProg, progVars>>

\* impl Drop for Circle
CircleDrop(s) ==
    s.type = "Circle" /\ DropShape("Circle::drop", s)

\* impl Drop for Rectangle
RectangleDrop(s) ==
    s.type = "Rectangle" /\ DropShape("Rectangle::drop", s)

\* impl Drop for RadialGradient
RadialGradientDrop(s) ==
    s.type = "RadialGradient" /\ DropShape("RadialGradient::drop", s)

\* ------------------------------------------------------------------ clone
\* #[derive(Clone)] on Rectangle: a field-by-field copy, the three names
\* and the index count included; the Arc<Context> is shared.
ClonedFields(s) == s

RectangleClone(s) ==
    /\ s.type = "Rectangle"
    /\ BagCardinality(shapes) < MaxShapes
    /\ shapes' = Put(shapes, ClonedFields(s))
    /\ calls' = <<>>
    /\ op' = [NoOp EXCEPT !.name = "Rectangle::clone", !.pre = s]
    /\ UNCHANGED <<glVars, bindVars, bufBytes, built, progVars>>

\* ----------------------------------------------------------------- update
\* update assigning self.width only.
UpdatedFieldsWidthOnly(s, width, height) ==
    [s EXCEPT !.width = width]

\* The fields Rectangle::update assigns: self.width and self.height (lines
\* 391-392).  self.indices is not among them.
UpdatedFields(s, width, height) ==
    [s EXCEPT !.width = width, !.height = height]

\* Rectangle::update(&mut self, width, height, kind)
RectangleUpdate(s, width, height, kind) ==
    /\ s.type = "Rectangle"
    /\ \E geometry \in Tessellate(RectanglePath(kind)), takes \in BOOLEAN :
        LET o == [NoOp EXCEPT !.name = "Rectangle::update", !.pre = s,
                              !.args = <<width, height>>]
            va == Bind(boundVA, s.vertex_array, liveVA, takes)
            ab == Bind(boundArr, s.vertex_buffer, liveBuf, takes)
            eb == Bind(boundElem, s.index_buffer, liveBuf, takes)
        IN
        IF ~geometry.ok
        THEN /\ ~takes
             /\ calls' = <<>>
             /\ op' = [o EXCEPT !.outcome = "panic", !.tessellated = FALSE]
             /\ UNCHANGED <<shapeVars, progVars>>
        ELSE /\ calls' =
                  <<Call("bind_vertex_array", "", s.vertex_array, "", <<>>,
                         s.vertex_array \in liveVA),
                    Call("bind_buffer", "ARRAY_BUFFER", s.vertex_buffer, "", <<>>,
                         s.vertex_buffer \in liveBuf),
                    Call("bind_buffer", "ELEMENT_ARRAY_BUFFER", s.index_buffer, "",
                         <<>>, s.index_buffer \in liveBuf),
                    Call("enable_vertex_attrib_array", "", 0, "", <<>>, TRUE),
                    Call("vertex_attrib_pointer_f32", "", 0, "FLOAT", <<2, 0, 0>>, TRUE),
                    Call("buffer_data_u8_slice", "ARRAY_BUFFER", ab, "STATIC_DRAW",
                         <<VertexBufferData(geometry)>>, ab \in liveBuf),
                    Call("buffer_data_u8_slice", "ELEMENT_ARRAY_BUFFER", eb,
                         "STATIC_DRAW", <<IndexBufferData(geometry)>>, eb \in liveBuf)>>
             /\ op' = o
             /\ boundVA' = va
             /\ boundArr' = ab
             /\ boundElem' = eb
             /\ bufBytes' = BufferData(
                    BufferData(bufBytes, ab, liveBuf, VertexBufferData(geometry)),
                    eb, liveBuf, IndexBufferData(geometry))
             /\ shapes' = Put(Take(s), UpdatedFields(s, width, height))
             /\ UNCHANGED <<glVars, boundProg, built, progVars>>

\* --------------------------------------------------------------- uniforms
\* The uniform names active in a program the caller passes (they come from
\* its shader sources): program 1 declares every name the shapes set,
\* program 2 lacks "transform" and "range".
ActiveUniforms(program) ==
    IF program = 1 THEN {"projection", "transform", "ucolor", "center", "range"}
    ELSE {"projection", "ucolor", "center"}

\* The bindings: which set_uniforms impl, the uniform name it looks up and
\* the value it pushes.  A matrix is represented by the arguments that
\* determine it: ortho(0, w, h, 0, 0, 1) by <<w, h>>, identity * translation
\* by <<x, y>>.
ProjectionUniforms(size) ==
    [kind |-> "ProjectionUniforms", name |-> "projection", v |-> size]

TranslatedTransform(position) ==
    [kind |-> "TransformUniforms", name |-> "transform", v |-> position]

ColorUniforms(color) ==
    [kind |-> "ColorUniforms", name |-> "ucolor", v |-> color]

GenericVec2Uniform(name, value) ==
    [kind |-> "GenericVec2Uniform", name |-> name, v |-> value]

GenericFloatUniform(name, value) ==
    [kind |-> "GenericFloatUniform", name |-> name, v |-> <<value>>]

\* The glow call each set_uniforms impl pushes its value with.
Setter(kind) ==
    CASE kind \in {"ProjectionUniforms", "TransformUniforms"} -> "uniform_matrix_4_f32_slice"
      [] kind = "ColorUniforms" -> "uniform_3_f32_slice"
      [] kind = "GenericVec2Uniform" -> "uniform_2_f32"
      [] OTHER -> "uniform_1_f32"

\* set_uniforms skipping a name the program lacks instead of unwrapping.
AppliedIgnoringMissing(uniforms, active) == Len(uniforms)

\* for uniform in uniforms { uniform.set_uniforms(..) }: every set_uniforms
\* unwraps get_uniform_location, so the loop ends in a panic at the first
\* binding whose name the program lacks.  The number of bindings applied.
Applied(uniforms, active) ==
    LET missing == {i \in 1..Len(uniforms) : uniforms[i].name \notin active}
    IN IF missing = {} THEN Len(uniforms)
       ELSE (CHOOSE i \in missing : \A j \in missing : i <= j) - 1

\* The calls of the loop: per binding applied a lookup and a setter, then
\* the failed lookup if the loop panics.
SetUniformsCalls(uniforms, program, active) ==
    LET n == Applied(uniforms, active)
        done == [i \in 1..(2 * n) |->
                    LET u == uniforms[(i + 1) \div 2] IN
                    IF i % 2 = 1
                    THEN Call("get_uniform_location", "Some", program, u.name, <<>>, TRUE)
                    ELSE Call(Setter(u.kind), "", program, u.name, u.v, TRUE)]
    IN IF n = Len(uniforms) THEN done
       ELSE Append(done, Call("get_uniform_location", "None", program,
                              uniforms[n + 1].name, <<>>, TRUE))

\* The binds render starts with.
RenderBinds(s, program) ==
    <<Call("use_program", "", program, "", <<>>, TRUE),
      Call("bind_vertex_array", "", s.vertex_array, "", <<>>,
           s.vertex_array \in liveVA),
      Call("bind_buffer", "ARRAY_BUFFER", s.vertex_buffer, "", <<>>,
           s.vertex_buffer \in liveBuf),
      Call("bind_buffer", "ELEMENT_ARRAY_BUFFER", s.index_buffer, "", <<>>,
           s.index_buffer \in liveBuf)>>

\* draw_elements(TRIANGLES, self.indices as i32, UNSIGNED_SHORT, 0), issued
\* with `va` and `eb` bound.
DrawElements(s, va, eb) ==
    <<Call("draw_elements", "TRIANGLES", eb, "UNSIGNED_SHORT", <<s.indices, 0>>,
           va \in liveVA /\ eb \in liveBuf)>>

\* GLObject::render(&self, program, uniforms), the same body in the three
\* impls.
Render(name, s, program, uniforms, args) ==
    \E takes \in BOOLEAN :
        LET active == ActiveUniforms(program)
            complete == Applied(uniforms, active) = Len(uniforms)
            va == Bind(boundVA, s.vertex_array, liveVA, takes)
            ab == Bind(boundArr, s.vertex_buffer, liveBuf, takes)
            eb == Bind(boundElem, s.index_buffer, liveBuf, takes)
        IN
        /\ takes => (s.vertex_array \notin liveVA \/ s.vertex_buffer \notin liveBuf
                     \/ s.index_buffer \notin liveBuf)
        /\ boundProg' = program
        /\ boundVA' = va
        /\ boundArr' = ab
        /\ boundElem' = eb
        /\ calls' = RenderBinds(s, program)
                    \o SetUniformsCalls(uniforms, program, active)
                    \o (IF complete THEN DrawElements(s, va, eb) ELSE <<>>)
        /\ op' = [NoOp EXCEPT !.name = name, !.pre = s, !.program = program,
                              !.uniforms = uniforms, !.args = args,
                              !.outcome = IF complete THEN "ok" ELSE "panic"]
        /\ UNCHANGED <<shapes, glVars, bufBytes, built, progVars>>

\* The list Circle::draw_with assembles.
CircleUniforms(position, color, resolution) ==
    <<ProjectionUniforms(resolution), TranslatedTransform(position),
      ColorUniforms(color)>>

\* The list Rectangle::draw_with assembles.
RectangleUniforms(position, color, resolution) ==
    <<ProjectionUniforms(resolution), TranslatedTransform(position),
      ColorUniforms(color)>>

\* RadialGradient::draw_with binding the radius under "center" too.
RadialGradientUniformsCenterTwice(radius, position, color, resolution) ==
    <<ProjectionUniforms(resolution), TranslatedTransform(position),
      ColorUniforms(color), GenericVec2Uniform("center", position),
      GenericFloatUniform("center", radius)>>

\* The list RadialGradient::draw_with assembles.
RadialGradientUniforms(radius, position, color, resolution) ==
    <<ProjectionUniforms(resolution), TranslatedTransform(position),
      ColorUniforms(color), GenericVec2Uniform("center", position),
      GenericFloatUniform("range", radius)>>

\* Circle::draw_with(&self, program, position, color, resolution)
CircleDrawWith(s, program, position, color, resolution) ==
    /\ s.type = "Circle"
    /\ Render("Circle::draw_with", s, program,
              CircleUniforms(position, color, resolution), position)

\* Rectangle::draw_with(&self, program, position, color, resolution)
RectangleDrawWith(s, program, position, color, resolution) ==
    /\ s.type = "Rectangle"
    /\ Render("Rectangle::draw_with", s, program,
              RectangleUniforms(position, color, resolution), position)

\* RadialGradient::draw_with(&self, program, position, color, resolution)
RadialGradientDrawWith(s, program, position, color, resolution) ==
    /\ s.type = "RadialGradient"
    /\ Render("RadialGradient::draw_with", s, program,
              RadialGradientUniforms(s.radius, position, color, resolution), position)

\* Lists a caller hands to render directly (GLObject is a public trait):
\* any order, a name twice.
CallerLists ==
    {<<ColorUniforms(<<0, 0, 255>>), TranslatedTransform(<<7, 9>>),
       ColorUniforms(<<0, 255, 0>>)>>}

\* <Circle as GLObject>::render
CircleRender(s, program, uniforms) ==
    s.type = "Circle" /\ Render("Circle::render", s, program, uniforms, <<>>)

\* <Rectangle as GLObject>::render
RectangleRender(s, program, uniforms) ==
    s.type = "Rectangle" /\ Render("Rectangle::render", s, program, uniforms, <<>>)

\* <RadialGradient as GLObject>::render
RadialGradientRender(s, program, uniforms) ==
    s.type = "RadialGradient" /\ Render("RadialGradient::render", s, program, uniforms, <<>>)

\* --------------------------------------------------------- compile_shader
\* "#version 330", prepended to each source by format!("{}\n{}", ..).
VersionDirective == 330

\* One pass of the loop over shader_sources for a stage whose shader was
\* created: source, compile, status check, then attach or panic with the
\* info log.
StageCalls(program, shader, type, source) ==
    <<Call("create_shader", type, shader, "Ok", <<>>, TRUE),
      Call("shader_source", "", shader, "", <<VersionDirective, source.id>>, TRUE),
      Call("compile_shader", "", shader, "", <<>>, TRUE),
      Call("get_shader_compile_status", "", shader,
           IF source.compiles THEN "true" ELSE "false", <<>>, TRUE)>>
    \o (IF source.compiles
        THEN <<Call("attach_shader", "", shader, "", <<program>>, TRUE)>>
        ELSE <<Call("get_shader_info_log", "", shader, "", <<>>, TRUE)>>)

\* gl.link_program(program) and the status check.
LinkCalls(program, links) ==
    <<Call("link_program", "", program, "", <<>>, TRUE),
      Call("get_program_link_status", "", program,
           IF links THEN "true" ELSE "false", <<>>, TRUE)>>
    \o (IF links THEN <<>>
        ELSE <<Call("get_program_info_log", "", program, "", <<>>, TRUE)>>)

\* The clean-up loop without delete_shader.
CleanupCallsDetachOnly(program, shaders) ==
    [i \in 1..Len(shaders) |->
        Call("detach_shader", "", shaders[i], "", <<program>>, TRUE)]

\* for shader in shaders { detach_shader; delete_shader }
CleanupCalls(program, shaders) ==
    [i \in 1..(2 * Len(shaders)) |->
        IF i % 2 = 1
        THEN Call("detach_shader", "", shaders[(i + 1) \div 2], "", <<program>>, TRUE)
        ELSE Call("delete_shader", "", shaders[i \div 2], "", <<>>, TRUE)]

\* The shader names a call list creates, attaches, detaches, deletes.
Named(cs, f) == {cs[i].n : i \in {j \in 1..Len(cs) : cs[j].f = f /\ cs[j].u # "Err"}}

\* compile_shader(gl, vertex_shader_source, fragment_shader_source).
\* fault: the create call that returns Err, if any; links: the link status.
CompileShader(vs, fs, fault, links) ==
    LET p   == nextProg
        sv  == nextShader
        sf  == nextShader + 1
        cP  == <<Call("create_program", "", p, "Ok", <<>>, TRUE)>>
        stop ==
            IF fault = "create_program" THEN "create_program"
            ELSE IF fault = "create_shader_v" THEN "create_shader_v"
            ELSE IF ~vs.compiles THEN "compile_v"
            ELSE IF fault = "create_shader_f" THEN "create_shader_f"
            ELSE IF ~fs.compiles THEN "compile_f"
            ELSE IF ~links THEN "link"
            ELSE "none"
        cs ==
            CASE stop = "create_program" ->
                    <<Call("create_program", "", 0, "Err", <<>>, TRUE)>>
              [] stop = "create_shader_v" ->
                    cP \o <<Call("create_shader", "VERTEX_SHADER", 0, "Err", <<>>, TRUE)>>
              [] stop = "compile_v" ->
                    cP \o StageCalls(p, sv, "VERTEX_SHADER", vs)
              [] stop = "create_shader_f" ->
                    cP \o StageCalls(p, sv, "VERTEX_SHADER", vs)
                       \o <<Call("create_shader", "FRAGMENT_SHADER", 0, "Err", <<>>, TRUE)>>
              [] stop = "compile_f" ->
                    cP \o StageCalls(p, sv, "VERTEX_SHADER", vs)
                       \o StageCalls(p, sf, "FRAGMENT_SHADER", fs)
              [] stop = "link" ->
                    cP \o StageCalls(p, sv, "VERTEX_SHADER", vs)
                       \o StageCalls(p, sf, "FRAGMENT_SHADER", fs)
                       \o LinkCalls(p, FALSE)
              [] OTHER ->
                    cP \o StageCalls(p, sv, "VERTEX_SHADER", vs)
                       \o StageCalls(p, sf, "FRAGMENT_SHADER", fs)
                       \o LinkCalls(p, TRUE)
                       \o CleanupCalls(p, <<sv, sf>>)
    IN
    /\ stop # "create_program" => p <= MaxPrograms
    /\ calls' = cs
    /\ op' = [NoOp EXCEPT !.name = "compile_shader",
                          !.outcome = IF stop = "none" THEN "ok" ELSE "panic",
                          !.program = IF stop = "none" THEN p ELSE 0,
                          !.args = <<vs.id, fs.id>>]
    /\ nextProg' = IF stop = "create_program" THEN p ELSE p + 1
    /\ nextShader' = nextShader + Cardinality(Named(cs, "create_shader"))
    /\ liveShaders' = (liveShaders \cup Named(cs, "create_shader"))
                          \ Named(cs, "delete_shader")
    /\ programs' =
          IF stop = "create_program" THEN programs
          ELSE [programs EXCEPT ![p] =
                  [state |-> IF stop = "none" THEN "linked" ELSE "created",
                   attached |-> Named(cs, "attach_shader") \ Named(cs, "detach_shader")]]
    /\ UNCHANGED shapeVars

\* ----------------------------------------------------------- specification
Construct ==
    \/ \E r \in Radii : CircleNew(r)
    \/ \E z \in NewSizes, k \in CornerTypes : RectangleNew(z[1], z[2], k)
    \/ \E r \in Radii : RadialGradientNew(r)

Drop ==
    \/ \E s \in Held : CircleDrop(s)
    \/ \E s \in Held : RectangleDrop(s)
    \/ \E s \in Held : RadialGradientDrop(s)

Update ==
    \E s \in Held, z \in UpdateSizes, k \in CornerTypes :
        RectangleUpdate(s, z[1], z[2], k)

Draw ==
    \E s \in Held, p \in Programs :
        \/ \E pos \in Positions, c \in Colors, res \in Resolutions :
              \/ CircleDrawWith(s, p, pos, c, res)
              \/ RectangleDrawWith(s, p, pos, c, res)
              \/ RadialGradientDrawWith(s, p, pos, c, res)
        \/ \E us \in CallerLists :
              \/ CircleRender(s, p, us)
              \/ RectangleRender(s, p, us)
              \/ RadialGradientRender(s, p, us)

Clone == \E s \in Held : RectangleClone(s)

Next == Construct \/ Drop \/ Update \/ Draw \/ Clone

Spec == Init /\ [][Next]_vars

NextNoClone == Construct \/ Drop \/ Update \/ Draw

SpecNoClone == Init /\ [][NextNoClone]_vars

Compile ==
    \E vs \in VertexSources, fs \in FragmentSources,
       fault \in {"none", "create_program", "create_shader_v", "create_shader_f"},
       links \in BOOLEAN :
        CompileShader(vs, fs, fault, links)

SpecShader == Init /\ [][Compile]_vars
\* ------------------------------------------------------------------ claims
DropNames   == {"Circle::drop", "Rectangle::drop", "RadialGradient::drop"}
NewNames    == {"Circle::new", "Rectangle::new", "RadialGradient::new"}
DrawNames   == {"Circle::draw_with", "Rectangle::draw_with", "RadialGradient::draw_with"}
RenderNames == {"Circle::render", "Rectangle::render", "RadialGradient::render"}
SetterNames == {"uniform_matrix_4_f32_slice", "uniform_3_f32_slice", "uniform_2_f32",
                "uniform_1_f32"}

\* The positions in `calls` of the calls of the functions fs.
CallsOf(fs) == {i \in 1..Len(calls) : calls[i].f \in fs}

\* C1: destroying a shape deletes its vertex array, its vertex buffer and
\* its index buffer, each delete call names an object that is still alive
\* (no handle receives a second delete call), and none of the three is
\* alive afterwards.
C1_ReleasedExactlyOnce ==
    op.name \in DropNames =>
        /\ Len(calls) = 3
        /\ calls[1].f = "delete_vertex_array" /\ calls[1].n = op.pre.vertex_array
        /\ calls[2].f = "delete_buffer" /\ calls[2].n = op.pre.vertex_buffer
        /\ calls[3].f = "delete_buffer" /\ calls[3].n = op.pre.index_buffer
        /\ \A i \in 1..3 : calls[i].alive
        /\ op.pre.vertex_array \notin liveVA
        /\ op.pre.vertex_buffer \notin liveBuf
        /\ op.pre.index_buffer \notin liveBuf

\* C2: for every shape held, the stored index count (what render passes to
\* draw_elements) is the number of u16 indices last uploaded to its index
\* buffer.
C2_IndexCountMatchesUpload ==
    \A s \in Held : s.indices * 2 = bufBytes[s.index_buffer]

\* C3: no two shape resources held at once share a vertex-array name, a
\* vertex-buffer name or an index-buffer name.
C3_ExclusiveOwnership ==
    /\ \A s \in Held : CopiesIn(s, shapes) = 1
    /\ \A s, u \in Held :
          s # u => /\ s.vertex_array # u.vertex_array
                   /\ s.vertex_buffer # u.vertex_buffer
                   /\ s.index_buffer # u.index_buffer

\* C8: the objects one constructor call created are all three alive or all
\* three gone; a construction never leaves a vertex array or a buffer alive
\* without the other two.
C8_CreatedAndDestroyedTogether ==
    \A g \in built :
        \/ g[1] \in liveVA /\ g[2] \in liveBuf /\ g[3] \in liveBuf
        \/ g[1] \notin liveVA /\ g[2] \notin liveBuf /\ g[3] \notin liveBuf

IsSetter(c) == c.f \in SetterNames
IsDraw(c) == c.f = "draw_elements"
CreatesOrDeletes(c) ==
    c.f \in {"create_vertex_array", "create_buffer", "delete_vertex_array", "delete_buffer"}

\* C4: Rectangle::update makes no create or delete call and leaves the
\* context's live objects as they were; when it returns, the rectangle has
\* the new width and height, the same three names, and the vertex and index
\* data were uploaded into its own two buffers.
C4_UpdateKeepsHandles ==
    [][op'.name = "Rectangle::update" =>
          /\ liveVA' = liveVA /\ liveBuf' = liveBuf
          /\ nextVA' = nextVA /\ nextBuf' = nextBuf
          /\ SelectSeq(calls', CreatesOrDeletes) = <<>>
          /\ op'.outcome = "ok" =>
                /\ op'.pre \in BagToSet(shapes)
                /\ \E n \in BagToSet(shapes') :
                      /\ shapes' = (shapes (-) SetToBag({op'.pre})) (+) SetToBag({n})
                      /\ n.type = "Rectangle"
                      /\ n.width = op'.args[1] /\ n.height = op'.args[2]
                      /\ n.vertex_array = op'.pre.vertex_array
                      /\ n.vertex_buffer = op'.pre.vertex_buffer
                      /\ n.index_buffer = op'.pre.index_buffer
                /\ \E i, j \in 1..Len(calls') :
                      /\ i < j
                      /\ calls'[i].f = "buffer_data_u8_slice"
                      /\ calls'[i].tgt = "ARRAY_BUFFER"
                      /\ calls'[i].n = op'.pre.vertex_buffer
                      /\ calls'[j].f = "buffer_data_u8_slice"
                      /\ calls'[j].tgt = "ELEMENT_ARRAY_BUFFER"
                      /\ calls'[j].n = op'.pre.index_buffer
    ]_vars

\* An update that returned, to a size the rectangle did not have, while
\* another shape is held.
C4_Witness ==
    /\ op.name = "Rectangle::update" /\ op.outcome = "ok"
    /\ op.pre.width # op.args[1] /\ op.pre.height # op.args[2]
    /\ \E n \in Held : n.vertex_array = op.pre.vertex_array /\ n.width = op.args[1]
    /\ \E u \in Held : u.vertex_array # op.pre.vertex_array

\* C5: every render (direct or through draw_with) calls use_program on the
\* program, binds the shape's vertex array, vertex buffer and index buffer,
\* applies the bindings handed to it in list order, and only then issues
\* draw_elements, once, over the shape's index count; at that draw the
\* current program and the three bindings are the drawn shape's.
C5_RenderOrder ==
    op.name \in RenderNames \cup DrawNames =>
        LET setters == SelectSeq(calls, IsSetter)
            draws   == CallsOf({"draw_elements"})
        IN
        /\ Len(calls) >= 4
        /\ calls[1].f = "use_program" /\ calls[1].n = op.program
        /\ calls[2].f = "bind_vertex_array" /\ calls[2].n = op.pre.vertex_array
        /\ calls[3].f = "bind_buffer" /\ calls[3].tgt = "ARRAY_BUFFER"
        /\ calls[3].n = op.pre.vertex_buffer
        /\ calls[4].f = "bind_buffer" /\ calls[4].tgt = "ELEMENT_ARRAY_BUFFER"
        /\ calls[4].n = op.pre.index_buffer
        /\ CallsOf({"use_program", "bind_vertex_array", "bind_buffer"}) = 1..4
        /\ Len(setters) <= Len(op.uniforms)
        /\ \A i \in 1..Len(setters) :
              setters[i].u = op.uniforms[i].name /\ setters[i].v = op.uniforms[i].v
        /\ op.outcome = "ok" =>
              /\ draws = {Len(calls)}
              /\ Len(setters) = Len(op.uniforms)
              /\ calls[Len(calls)].v[1] = op.pre.indices
        /\ op.outcome # "ok" => draws = {}
        /\ draws # {} =>
              /\ boundProg = op.program
              /\ boundVA = op.pre.vertex_array
              /\ boundArr = op.pre.vertex_buffer
              /\ boundElem = op.pre.index_buffer

\* A completed render of a shape built before another shape that is still
\* held: the bindings were the other shape's when the render began.
C5_Witness ==
    /\ op.name \in RenderNames \cup DrawNames /\ op.outcome = "ok"
    /\ \E u \in Held : u.vertex_array > op.pre.vertex_array
    /\ boundVA = op.pre.vertex_array

\* C6: a tessellation error in Circle::new or RadialGradient::new is
\* returned as Err with no context call made and no object created; in
\* Rectangle::new or Rectangle::update it panics.  Err is returned for
\* nothing else.
C6_TessellationFailure ==
    [][/\ (~op'.tessellated /\ op'.name \in {"Circle::new", "RadialGradient::new"}) =>
             /\ op'.outcome = "err"
             /\ calls' = <<>>
             /\ liveVA' = liveVA /\ liveBuf' = liveBuf
             /\ nextVA' = nextVA /\ nextBuf' = nextBuf
             /\ shapes' = shapes
       /\ (~op'.tessellated /\ op'.name \in {"Rectangle::new", "Rectangle::update"}) =>
             op'.outcome = "panic"
       /\ op'.outcome = "err" =>
             ~op'.tessellated /\ op'.name \in {"Circle::new", "RadialGradient::new"}
    ]_vars

\* Circle::new returned Err while objects of earlier shapes are alive.
C6_Witness ==
    /\ op.name = "Circle::new" /\ ~op.tessellated /\ op.outcome = "err"
    /\ liveVA # {} /\ liveBuf # {}

\* C7: in compile_shader the vertex stage comes before the fragment stage,
\* a shader is attached only after its compile status was read as true,
\* link_program comes after both attaches; when the call returns, both
\* shaders it created were detached and then deleted after the link, none
\* of them is alive or attached, and the program returned is linked.
C7_ShadersReleased ==
    op.name = "compile_shader" =>
        LET creates  == {i \in CallsOf({"create_shader"}) : calls[i].u = "Ok"}
            created  == {calls[i].n : i \in creates}
            attaches == CallsOf({"attach_shader"})
            links    == CallsOf({"link_program"})
            At(f, sh) == {i \in CallsOf({f}) : calls[i].n = sh}
        IN
        /\ \A i, j \in CallsOf({"create_shader"}) :
              i < j => /\ calls[i].tgt = "VERTEX_SHADER"
                       /\ calls[j].tgt = "FRAGMENT_SHADER"
        /\ \A i \in CallsOf({"create_shader"}) :
              calls[i].tgt = "FRAGMENT_SHADER" =>
                  \E j \in attaches : j < i
        /\ \A i \in attaches :
              \E j \in 1..(i - 1) :
                  /\ calls[j].f = "get_shader_compile_status"
                  /\ calls[j].n = calls[i].n /\ calls[j].u = "true"
        /\ \A l \in links : Cardinality({i \in attaches : i < l}) = 2
        /\ op.outcome = "ok" =>
              /\ Cardinality(created) = 2
              /\ Cardinality(links) = 1
              /\ calls[1].f = "create_program" /\ calls[1].n = op.program
              /\ programs[op.program].state = "linked"
              /\ programs[op.program].attached = {}
              /\ \A sh \in created :
                    /\ sh \notin liveShaders
                    /\ \E d \in At("detach_shader", sh), x \in At("delete_shader", sh) :
                          d < x /\ \A l \in links : l < d

\* compile_shader returned a program after an earlier call panicked and
\* left its shaders alive.
C7_Witness ==
    /\ op.name = "compile_shader" /\ op.outcome = "ok"
    /\ liveShaders # {}

\* C9: the list a draw_with assembles is projection, transform, ucolor
\* (Circle, Rectangle), followed by center and range for RadialGradient,
\* each name once, transform and center carrying the position, range the
\* radius; the draw applies them in that order, never a name twice, and a
\* draw_with that returns applied them all and issued one draw_elements.
C9_UniformLists ==
    op.name \in DrawNames =>
        LET us == op.uniforms
            setters == SelectSeq(calls, IsSetter)
            expected ==
                IF op.name = "RadialGradient::draw_with"
                THEN <<"projection", "transform", "ucolor", "center", "range">>
                ELSE <<"projection", "transform", "ucolor">>
        IN
        /\ Len(us) = Len(expected)
        /\ \A i \in 1..Len(us) : us[i].name = expected[i]
        /\ \A i, j \in 1..Len(us) : i # j => us[i].name # us[j].name
        /\ us[2].v = op.args
        /\ op.name = "RadialGradient::draw_with" =>
              us[4].v = op.args /\ us[5].v = <<op.pre.radius>>
        /\ Len(setters) <= Len(us)
        /\ \A i \in 1..Len(setters) : setters[i].u = us[i].name /\ setters[i].v = us[i].v
        /\ \A i, j \in 1..Len(setters) : i # j => setters[i].u # setters[j].u
        /\ Len(SelectSeq(calls, IsDraw)) <= 1
        /\ op.outcome = "ok" =>
              Len(setters) = Len(us) /\ Len(SelectSeq(calls, IsDraw)) = 1

\* A RadialGradient::draw_with that returned.
C9_Witness ==
    /\ op.name = "RadialGradient::draw_with" /\ op.outcome = "ok"
    /\ Len(SelectSeq(calls, IsSetter)) = 5

\* C10: when the program lacks a name of the binding list, render panics at
\* the first such binding: the bindings before it were applied, none after
\* it, no draw_elements is issued, and the shapes and the context's objects
\* are as before.
C10_MissingUniformAborts ==
    [][op'.name \in RenderNames \cup DrawNames =>
          LET us == op'.uniforms
              missing == {i \in 1..Len(us) : us[i].name \notin ActiveUniforms(op'.program)}
              setters == SelectSeq(calls', IsSetter)
          IN
          missing # {} =>
              LET first == CHOOSE i \in missing : \A j \in missing : i <= j IN
              /\ op'.outcome = "panic"
              /\ Len(setters) = first - 1
              /\ \A i \in 1..(first - 1) :
                    setters[i].u = us[i].name /\ setters[i].v = us[i].v
              /\ SelectSeq(calls', IsDraw) = <<>>
              /\ calls'[Len(calls')].f = "get_uniform_location"
              /\ calls'[Len(calls')].tgt = "None"
              /\ calls'[Len(calls')].u = us[first].name
              /\ shapes' = shapes /\ op'.pre \in BagToSet(shapes')
              /\ liveVA' = liveVA /\ liveBuf' = liveBuf /\ bufBytes' = bufBytes
    ]_vars

\* A draw_with that panicked after applying a binding.
C10_Witness ==
    /\ op.name \in DrawNames /\ op.outcome = "panic"
    /\ SelectSeq(calls, IsSetter) # <<>>
    /\ SelectSeq(calls, IsDraw) = <<>>

UseNames == {"bind_vertex_array", "bind_buffer", "buffer_data_u8_slice", "draw_elements"}

\* C11: no use after release.  Every bind_vertex_array, bind_buffer,
\* buffer upload and draw_elements call that render (direct or through
\* draw_with) or Rectangle::update makes names an object that has not been
\* deleted, and the three names of every shape still held are alive: the
\* drop of one shape never deletes a name another held shape has.
C11_NoUseAfterRelease ==
    /\ op.name \in RenderNames \cup DrawNames \cup {"Rectangle::update"} =>
          \A i \in CallsOf(UseNames) : calls[i].alive
    /\ \A s \in Held :
          /\ s.vertex_array \in liveVA
          /\ s.vertex_buffer \in liveBuf
          /\ s.index_buffer \in liveBuf

====
